---- MODULE Spec2Model ----
(***************************************************************************)
(* Model of scripts/arxiv_meteo_ai_rss.py.  The script is one sequential   *)
(* pipeline, main(): ensure_state -> fetch_arxiv + filters -> dedup +      *)
(* truncation -> summarize -> build_rss + write -> save_state.  A run of   *)
(* main() is one action per way it can end.  The two files the script owns *)
(* (state/state.json and docs/index.xml) are the persistent state; the     *)
(* catalog, the clock, the process environment and the completion API are  *)
(* the environment.                                                        *)
(***************************************************************************)
EXTENDS Integers, Sequences, FiniteSets, TLC

\* ---------------------------------------------------------------- bounds
NumIds == 3
MaxNow == 2

\* ------------------------------------------------------ program constants
\* LOOKBACK_HOURS (line 16: 36), MAX_RESULTS (line 17: 10) and the cap of
\* the [-5000:] slice (line 196), scaled down to the model's size.
LOOKBACK_HOURS == 1
MAX_RESULTS == 2
StateCap == 1

BLACKLIST_TERMS == {"quantum field", "string theory"}

Ids == 1..NumIds
\* a paper's `updated or published` instant (line 87), in hours
Timestamps == {0, MaxNow}
\* lower-cased title + " " + summary (line 94), as the set of terms in it
Texts == {{"weather"}, {"weather", "quantum field"}}

PaperRecord == [id : Ids, ts : Timestamps, text : Texts]

\* MAX_ITEMS_PER_RUN (line 18) is read from the process environment
ItemCaps == 1..MAX_RESULTS
\* DEEPSEEK_API_KEY (line 100): "" stands for unset or empty
ApiKeys == {"", "sk"}

VARIABLES
    catalog,    \* what the catalog API returns for the query, newest first
    now,        \* the wall clock, in hours
    stateFile,  \* content of state/state.json
    outFile,    \* docs/index.xml: whether it exists, and its entries' GUIDs
    run         \* the last run of main() since the environment last changed

vars == <<catalog, now, stateFile, outFile, run>>

\* ------------------------------------------------------------- sequences
Range(s) == {s[i] : i \in 1..Len(s)}

Min(a, b) == IF a < b THEN a ELSE b

\* s[:n]
Head_n(s, n) == SubSeq(s, 1, Min(n, Len(s)))

\* s[-n:]
Tail_n(s, n) == IF Len(s) <= n THEN s ELSE SubSeq(s, Len(s) - n + 1, Len(s))

\* list(a_set): the elements, each once, in an order the hash table decides
list_of_set(S) ==
    {f \in [1..Cardinality(S) -> S] : \A i, j \in 1..Cardinality(S) : f[i] = f[j] => i = j}

\* ------------------------------------------------------------ state file
Missing == [kind |-> "missing", seen_ids |-> <<>>]
Garbage == [kind |-> "garbage", seen_ids |-> <<>>]   \* not valid JSON
JsonArray == [kind |-> "array", seen_ids |-> <<>>]   \* valid JSON, not an object
EmptyObject == [kind |-> "empty_object", seen_ids |-> <<>>]  \* {} : no seen_ids key
StateObject(ids) == [kind |-> "object", seen_ids |-> ids]

\* ensure_state, lines 43-44: the file after the existence check
ensure_written(f) == IF f.kind = "missing" THEN StateObject(<<>>) ELSE f

\* ensure_state, lines 45-46, and main, line 168: the set `seen`, or the
\* exception that leaves main (json.load on garbage, .get on a non-object)
load_seen(f) ==
    CASE f.kind = "garbage" -> [raised |-> TRUE, seen |-> {}]
      [] f.kind = "array" -> [raised |-> TRUE, seen |-> {}]
      [] f.kind = "empty_object" -> [raised |-> FALSE, seen |-> {}]
      [] OTHER -> [raised |-> FALSE, seen |-> Range(f.seen_ids)]

\* --------------------------------------------------------------- filters
\* lines 83-90, on the clock reading t
within_lookback(item, t) == item.ts >= t - LOOKBACK_HOURS

\* lines 93-95
topic_ok(item) == item.text \cap BLACKLIST_TERMS = {}

\* a fetch that swallows the exception and goes on with the records it had
fetch_arxiv_partial(cat, fails) ==
    [raised |-> FALSE,
     papers |-> IF fails THEN SubSeq(cat, 1, Len(cat) - 1) ELSE cat]

\* fetch_arxiv as line 171 consumes it: fails = TRUE when the generator
\* raises before it is exhausted (the client's retries are used up)
fetch_arxiv(cat, fails) ==
    IF fails
    THEN [raised |-> TRUE, papers |-> <<>>]
    ELSE [raised |-> FALSE, papers |-> cat]

\* line 171
filter_papers(recs, t) ==
    SelectSeq(recs, LAMBDA p : within_lookback(p, t) /\ topic_ok(p))

\* a dedup that does not look at the ids
unseen_unchecked(papers, seenSet) == papers

\* line 172
unseen(papers, seenSet) == SelectSeq(papers, LAMBDA p : p.id \notin seenSet)

\* a slice that is one too long
truncate_late(recs, cap) == Head_n(recs, cap + 1)

\* line 173
truncate(recs, cap) == Head_n(recs, cap)

\* -------------------------------------------------------------- summarize
\* what one call of the completion API does: it answers, it raises before
\* there is a response (building the client, lines 103-104, or the request,
\* lines 114-119), or reading the response raises (line 120)
RemoteOutcomes == {"ok", "request_error", "response_error"}

\* a try block that ends before the response is read
summarize_narrow_try(key, remote) ==
    IF key # "" /\ remote = "ok"
    THEN [raised |-> FALSE, digest |-> "remote"]
    ELSE [raised |-> key # "" /\ remote = "response_error", digest |-> "fallback"]

\* summarize, lines 98-137: which path produced the digest, or the
\* exception that leaves it
summarize(key, remote) ==
    IF key # "" /\ remote = "ok"
    THEN [raised |-> FALSE, digest |-> "remote"]
    ELSE [raised |-> FALSE, digest |-> "fallback"]

\* lines 177-186
make_items(freshSeq, key, remotes) ==
    [i \in 1..Len(freshSeq) |->
        LET s == summarize(key, remotes[i])
        IN [guid |-> freshSeq[i].id, raised |-> s.raised, digest |-> s.digest]]

\* docs/index.xml before the first write, and as line 193 writes it
NoFeed == [exists |-> FALSE, entries |-> <<>>]
Feed(entries) == [exists |-> TRUE, entries |-> entries]

\* build_rss, lines 153-155: one entry per item, in order
build_rss(its) == [i \in 1..Len(its) |-> its[i].guid]

\* ------------------------------------------------------------ save_state
\* a save that reads the list of line 172, before the truncation
fresh_at_save_untruncated(untruncated, truncated) == untruncated

\* line 196 reads `fresh`, which line 173 has rebound to the truncated list
fresh_at_save(untruncated, truncated) == truncated

\* a save that forgets the ids of this run
ids_to_save_stale(seenSet, freshSeq) == seenSet

\* line 196: the ids kept
ids_to_save(seenSet, freshSeq) == seenSet \cup {p.id : p \in Range(freshSeq)}

\* a save without the slice
capped_never(l) == l

\* line 196: list(...)[-5000:]
capped(l) == Tail_n(l, StateCap)

\* ------------------------------------------------------------------ Init
\* `run` records the last run: how it ended, the configuration and the
\* environment it met, and main's locals
NoRun == [outcome |-> "none", cap |-> 0, api_key |-> "", fetch_raised |-> FALSE,
          seen |-> {}, fresh |-> <<>>, remotes |-> <<>>, items |-> <<>>,
          repeat |-> FALSE, saved_before |-> {}]

Aborted(how, fetchRaised) ==
    [NoRun EXCEPT !.outcome = how, !.fetch_raised = fetchRaised]

Init ==
    /\ catalog = <<>>
    /\ now = 0
    /\ stateFile \in {Missing, Garbage, JsonArray, EmptyObject}
    /\ outFile = NoFeed
    /\ run = NoRun

\* ----------------------------------------------------------- environment
\* a paper is submitted or updated: it is the newest result of the query
Publish(rec) ==
    /\ catalog' = Head_n(<<rec>> \o catalog, MAX_RESULTS)
    /\ run' = NoRun
    /\ UNCHANGED <<now, stateFile, outFile>>

Tick ==
    /\ now < MaxNow
    /\ now' = now + 1
    /\ run' = NoRun
    /\ UNCHANGED <<catalog, stateFile, outFile>>

\* ------------------------------------------------------------------ main
\* main ends at line 167 or 168: the state file cannot be loaded
RunStateError ==
    /\ load_seen(ensure_written(stateFile)).raised
    /\ stateFile' = ensure_written(stateFile)
    /\ run' = Aborted("state_error", FALSE)
    /\ UNCHANGED <<catalog, now, outFile>>

\* what the completion API does on each call of a run: it is not called
\* at all without a key (line 101)
RemoteRuns(key, n) ==
    [1..n -> IF key = "" THEN {"not_called"} ELSE RemoteOutcomes]

\* main from line 167 on, the state file being loadable: it runs to line
\* 199, or ends at line 171 (fetch) or in the loop of lines 177-186
RunMain(cap, key, fails) ==
    /\ ~load_seen(ensure_written(stateFile)).raised
    /\ LET seen == load_seen(ensure_written(stateFile)).seen
           fetched == fetch_arxiv(catalog, fails)
           papers == filter_papers(fetched.papers, now)
           fresh0 == unseen(papers, seen)
           fresh == truncate(fresh0, cap)
       IN IF fetched.raised
          THEN /\ stateFile' = ensure_written(stateFile)
               /\ outFile' = outFile
               /\ run' = Aborted("fetch_error", fails)
          ELSE \E remotes \in RemoteRuns(key, Len(fresh)) :
             LET items == make_items(fresh, key, remotes)
             IN IF \E i \in 1..Len(items) : items[i].raised
                THEN /\ stateFile' = ensure_written(stateFile)
                     /\ outFile' = outFile
                     /\ run' = Aborted("summarize_error", fails)
                ELSE /\ outFile' = Feed(build_rss(items))
                     /\ \E l \in list_of_set(ids_to_save(seen, fresh_at_save(fresh0, fresh))) :
                           stateFile' = StateObject(capped(l))
                     /\ run' = [outcome |-> "ok", cap |-> cap, api_key |-> key,
                                fetch_raised |-> fails,
                                seen |-> seen, fresh |-> fresh,
                                remotes |-> remotes, items |-> items,
                                repeat |-> (run.outcome = "ok" /\ run.cap = cap),
                                saved_before |-> run.saved_before \cup seen]
    /\ UNCHANGED <<catalog, now>>

Next ==
    \/ \E rec \in PaperRecord : Publish(rec)
    \/ Tick
    \/ RunStateError
    \/ \E cap \in ItemCaps, key \in ApiKeys, fails \in BOOLEAN : RunMain(cap, key, fails)

Spec == Init /\ [][Next]_vars

\* the script is scheduled (RSS_CHANNEL, line 34: it is run every day): on
\* an unchanged catalog, clock and configuration, with the catalog reachable,
\* runs keep happening
LiveInit ==
    /\ catalog \in UNION {[1..k -> PaperRecord] : k \in 0..MAX_RESULTS}
    /\ now \in 0..MaxNow
    /\ \/ stateFile = Missing /\ outFile = NoFeed
       \/ /\ stateFile \in {StateObject(l) : l \in UNION {list_of_set(S) : S \in SUBSET Ids}}
          /\ Len(stateFile.seen_ids) <= StateCap
          /\ outFile = Feed(<<>>)
    /\ run = NoRun

LiveNext ==
    \E cap \in ItemCaps, key \in ApiKeys :
        /\ run.outcome = "ok" => (cap = run.cap /\ key = run.api_key)
        /\ RunMain(cap, key, FALSE)

LiveSpec == LiveInit /\ [][LiveNext]_vars /\ WF_vars(LiveNext)

\* ================================================================ claims
\* the ids persisted in the state file
Saved == Range(stateFile.seen_ids)

\* the GUIDs of the feed entries of run r
FreshIds(r) == {p.id : p \in Range(r.fresh)}

\* the fetched records that pass both filters and were not in the SeenState
\* loaded by the last run (the catalog and the clock have not changed since)
UnseenMatching == unseen(filter_papers(catalog, now), run.seen)

UnseenMatchingIds == {p.id : p \in Range(UnseenMatching)}

\* the last run dropped nothing at the state cap
NoEviction == Cardinality(run.seen \cup FreshIds(run)) <= StateCap

\* the last run cut nothing at the item cap
NoTruncation == Len(UnseenMatching) <= run.cap

\* C1 (as claimed): an identifier that was in the persisted seen_ids after
\* some run is never a feed entry GUID of a later run.
C1_NeverReEmitted ==
    run.outcome = "ok" => FreshIds(run) \cap run.saved_before = {}

\* C1 (amended): an identifier that is in the persisted seen_ids when a run
\* starts is not a feed entry GUID of that run: it is not emitted again for
\* as long as the state cap has not dropped it.
C1_SeenNotEmitted ==
    [][run'.outcome = "ok" =>
          /\ FreshIds(run') \cap Range(stateFile.seen_ids) = {}
          /\ Range(outFile'.entries) \cap Range(stateFile.seen_ids) = {}]_vars

C1_Witness ==
    /\ run.outcome = "ok"
    /\ run.fresh # <<>>
    /\ \E j \in 1..Len(catalog) :
          /\ within_lookback(catalog[j], now)
          /\ topic_ok(catalog[j])
          /\ catalog[j].id \in run.seen
          /\ catalog[j].id \notin Range(outFile.entries)

\* C2 (as claimed): a run that directly follows a completed run, on the same
\* catalog response, clock and configuration, has an empty fresh-item set and
\* writes an empty feed.
C2_SecondRunEmpty ==
    (run.outcome = "ok" /\ run.repeat) => (run.fresh = <<>> /\ outFile = Feed(<<>>))

\* C2 (amended): a run that directly follows a completed run, on the same
\* catalog response, clock and configuration, has an empty fresh-item set and
\* writes an empty feed, provided the first run cut nothing at the item cap
\* and dropped nothing at the state cap.
C2_SecondRunEmptyIfNothingCut ==
    [][(/\ run.outcome = "ok"
        /\ run'.outcome = "ok"
        /\ run'.cap = run.cap
        /\ NoTruncation
        /\ NoEviction)
       => (run'.fresh = <<>> /\ outFile' = Feed(<<>>))]_vars

C2_Witness ==
    /\ run.outcome = "ok"
    /\ run.repeat
    /\ run.fresh = <<>>
    /\ outFile = Feed(<<>>)
    /\ Len(filter_papers(catalog, now)) > 0
    /\ \A i \in 1..Len(filter_papers(catalog, now)) :
          filter_papers(catalog, now)[i].id \in run.seen \cap Saved

\* the positions of the catalog response whose record passes within_lookback
\* and topic_ok and has an id outside the SeenState loaded at run start
Eligible ==
    {j \in 1..Len(catalog) :
        /\ within_lookback(catalog[j], now)
        /\ topic_ok(catalog[j])
        /\ catalog[j].id \notin run.seen}

C4_FetchFailureWritesNothing ==
    [][run'.fetch_raised =>
          /\ run'.outcome = "fetch_error"
          /\ outFile' = outFile
          /\ Range(stateFile'.seen_ids) = Range(stateFile.seen_ids)]_vars

C4_Witness ==
    /\ run.outcome = "fetch_error"
    /\ run.fetch_raised
    /\ outFile.exists
    /\ Len(unseen(filter_papers(catalog, now), Saved)) > 0

\* C5: a run that finds the state file missing or unreadable goes on with
\* an empty SeenState (it is never ended by the state file); when the file
\* was missing an object is persisted, and loading again changes nothing.
C5_StateFileRecovered ==
    [][(stateFile.kind \in {"missing", "garbage", "array"} /\ run'.outcome # "none")
       => /\ run'.outcome # "state_error"
          /\ run'.outcome = "ok" => run'.seen = {}
          /\ stateFile.kind = "missing" => stateFile'.kind = "object"
          /\ ensure_written(stateFile') = stateFile']_vars

\* C6: summarize never ends the run: every fresh record gets an item with a
\* digest and its feed entry, and the digest is the fallback one exactly
\* when there is no API key or the remote call raised.
C6_SummarizeNeverAborts ==
    /\ run.outcome # "summarize_error"
    /\ run.outcome = "ok" =>
          /\ Len(run.items) = Len(run.fresh)
          /\ Len(outFile.entries) = Len(run.fresh)
          /\ \A i \in 1..Len(run.fresh) :
                /\ run.items[i].guid = run.fresh[i].id
                /\ outFile.entries[i] = run.fresh[i].id
                /\ run.items[i].digest \in {"remote", "fallback"}
                /\ run.items[i].digest = "fallback"
                      <=> (run.api_key = "" \/ run.remotes[i] # "ok")

C6_Witness ==
    /\ run.outcome = "ok"
    /\ run.api_key # ""
    /\ \E i \in 1..Len(run.fresh) :
          /\ run.remotes[i] # "ok"
          /\ run.items[i].digest = "fallback"
          /\ outFile.entries[i] = run.fresh[i].id

\* C7: the persisted seen_ids list is never longer than the cap.
C7_StateCapped == Len(stateFile.seen_ids) <= StateCap

C7_Witness ==
    /\ run.outcome = "ok"
    /\ Cardinality(run.seen \cup FreshIds(run)) > StateCap
    /\ Len(stateFile.seen_ids) = StateCap

\* a record that the last run found unseen and matching, and cut at the
\* item cap
Cut(i) == run.outcome = "ok" /\ i \in UnseenMatchingIds \ FreshIds(run)

Emitted(i) == run.outcome = "ok" /\ i \in FreshIds(run)

\* C8: a record cut at the item cap is absent from the SeenState that run
\* saves and, the catalog returning it within the lookback window in every
\* later run, it is a feed entry of some later run.
C8_CutEventuallyPublished ==
    \A i \in Ids : [](Cut(i) => i \notin Saved) /\ (Cut(i) ~> Emitted(i))

\* C9 (as claimed): after a completed run the saved seen_ids contain the
\* identifiers of all unseen matching records of the run, those cut at the
\* item cap included (the state cap dropping nothing).
C9_AllUnseenPersisted ==
    (run.outcome = "ok" /\ NoEviction) => UnseenMatchingIds \subseteq Saved

\* C9 (amended): after a completed run the saved seen_ids contain only
\* identifiers of the SeenState loaded at run start and of the entries
\* rendered into the feed, and all of them when the state cap drops nothing.
C9_OnlyRenderedPersisted ==
    run.outcome = "ok" =>
        /\ Saved \subseteq run.seen \cup Range(outFile.entries)
        /\ NoEviction => Saved = run.seen \cup Range(outFile.entries)

C9_Witness ==
    /\ run.outcome = "ok"
    /\ NoEviction
    /\ \E i \in UnseenMatchingIds : i \notin FreshIds(run) /\ i \notin Saved

====
